---- MODULE Spec2Model ----
(***************************************************************************)
(* Model of the driver examples: the melody sequencer MidiTable of the     *)
(* AD9833 player, the Rainbow and Servo generators of the PCA9685 program, *)
(* and the polling loops of the example programs.                          *)
(***************************************************************************)
EXTENDS Integers, Sequences, FiniteSets, TLC

VARIABLES
    position,          \* MidiTable.position
    duration_counter,  \* MidiTable.duration_counter
    midi_item,         \* what the last MidiTable::next() returned
    hue,               \* Rainbow.hue
    rgb_item,          \* what the last Rainbow::next() returned
    servos,            \* the Servo instances: records [current, factor]
    servo_item,        \* what the last Servo::next() of each instance returned
    fault,             \* "none", or the failure a generator step ran into
    calls,             \* number of next() calls made (saturates at MaxCalls)
    before,            \* the fields the last next() call started from
    unit,              \* what runs: one generator ("midi", "rainbow",
                       \* "servo") or one example program
    pc,                \* the program's place in its list of calls
    status,            \* "running", or "panicked" once the program has ended
    led,               \* the status LED: "unset", "on", "off", "high", "low"
    last,              \* the last call the program made and its outcome
    current_register,  \* AD9833 player: current_register
    pot_position,      \* MCP42x example: position
    counter,           \* CCS811 example: counter
    now,               \* DS3231 example: the date-time last read
    values,            \* PCA9685 program: values
    readings,          \* the readings the current iteration has bound
    buffer,            \* the lines drawn into the display's buffer
    synth,             \* AD9833: the register written last, the one selected
    pot,               \* MCP42x: the position last set on each channel
    rtc                \* DS3231: the time passed since set_datetime

vars == <<position, duration_counter, midi_item, hue, rgb_item, servos,
          servo_item, fault, calls, before, unit, pc, status, led, last,
          current_register, pot_position, counter, now, values, readings,
          buffer, synth, pot, rtc>>

midi_vars == <<position, duration_counter, midi_item>>
rainbow_vars == <<hue, rgb_item>>
servo_vars == <<servos, servo_item>>
device_vars == <<readings, buffer, synth, pot, rtc>>
program_vars == <<pc, status, led, last, current_register, pot_position,
                  counter, now, values, device_vars>>

(***************************************************************************)
(* Bounds of the model.                                                    *)
(***************************************************************************)
\* largest duration_counter an arbitrary MidiTable starts with
MaxCounter == 18
\* next() calls that are counted; the PCA9685 program, whose rainbow and
\* servos are back at their joint start only after 171836 iterations, is
\* followed for this many iterations
MaxCalls == 1000
\* number of steps the time of the DS3231 advances by
MaxTicks == 4

(***************************************************************************)
(* Option<T> and the integer types.                                        *)
(***************************************************************************)
None == <<>>
Some(v) == <<v>>
IsSome(o) == o # None
Unwrap(o) == o[1]
\* Option::or
OptionOr(a, b) == IF IsSome(a) THEN a ELSE b
UnwrapOr(o, d) == IF IsSome(o) THEN Unwrap(o) ELSE d

U16Modulus == 65536
I16Max == 32767
\* TLC's largest integer; the target's usize::MAX (2^32 - 1) is above it
UsizeMax == 2147483647

InU16(x) == x >= 0 /\ x < U16Modulus
InI16(x) == x >= -I16Max - 1 /\ x <= I16Max
\* `as i16` of a u16, `as u16` of an i16, and wrapping to each width
AsI16(x) == IF x > I16Max THEN x - U16Modulus ELSE x
AsU16(x) == x % U16Modulus
WrapU16(x) == x % U16Modulus
WrapI16(x) == AsI16(x % U16Modulus)

\* what the build does on integer overflow: panic (overflow checks on, the
\* dev profile) or wrap (checks off, the release profile)
OverflowChecks == BOOLEAN

(***************************************************************************)
(* MidiTable                                                               *)
(***************************************************************************)
NOTES == <<
    <<76, 4, 1>>, <<76, 4, 1>>, <<77, 4, 1>>, <<79, 4, 1>>, <<79, 4, 1>>, <<77, 4, 1>>,
    <<76, 4, 1>>, <<74, 4, 1>>, <<72, 4, 1>>, <<72, 4, 1>>, <<74, 4, 1>>, <<76, 4, 1>>,
    <<76, 4, 4>>, <<74, 2, 1>>, <<74, 6, 4>>, <<76, 4, 1>>, <<76, 4, 1>>, <<77, 4, 1>>,
    <<79, 4, 1>>, <<79, 4, 1>>, <<77, 4, 1>>, <<76, 4, 1>>, <<74, 4, 1>>, <<72, 4, 1>>,
    <<72, 4, 1>>, <<74, 4, 1>>, <<76, 4, 1>>, <<74, 4, 4>>, <<72, 2, 1>>, <<72, 6, 4>>,
    <<74, 4, 1>>, <<74, 4, 1>>, <<76, 4, 1>>, <<72, 4, 1>>, <<74, 4, 1>>, <<76, 2, 1>>,
    <<77, 2, 1>>, <<76, 4, 1>>, <<72, 4, 1>>, <<74, 4, 1>>, <<76, 2, 1>>, <<77, 2, 1>>,
    <<76, 4, 1>>, <<74, 4, 1>>, <<72, 4, 1>>, <<74, 4, 1>>, <<67, 6, 2>>, <<76, 4, 1>>,
    <<76, 4, 1>>, <<77, 4, 1>>, <<79, 4, 1>>, <<79, 4, 1>>, <<77, 4, 1>>, <<76, 4, 1>>,
    <<74, 4, 1>>, <<72, 4, 1>>, <<72, 4, 1>>, <<74, 4, 1>>, <<76, 4, 1>>, <<74, 6, 2>>,
    <<72, 2, 1>>, <<72, 6, 10>>
>>

NotesLen == Len(NOTES)
\* NOTES[i] of the source, whose indices start at 0
Note(i) == NOTES[i + 1]

\* a table that starts with its counter at 1, as after a step to an entry
MidiTable_started == [position |-> 0, duration_counter |-> 1]
MidiTable_default == [position |-> 0, duration_counter |-> 0]

is_in_silence_late(dc, note_duration, total_duration) ==
    dc > note_duration /\ dc < total_duration

is_in_silence(dc, note_duration, total_duration) ==
    dc >= note_duration /\ dc < total_duration

next_position_skip(p) == (p + 2) % NotesLen

next_position_wide(p) == (p + 1) % (NotesLen + 1)

next_position(p) == (p + 1) % NotesLen

\* One call of MidiTable::next() on the fields (p, dc): the fields after the
\* call, the Option returned, and the failure of the call if it has one.
MidiTable_next(p, dc) ==
    IF p >= NotesLen
    THEN [position |-> p, duration_counter |-> dc, item |-> None, fault |-> "index"]
    ELSE
      LET note_duration == Note(p)[2]
          silence_duration == Note(p)[3]
          total_duration == note_duration + silence_duration
          in_silence == is_in_silence(dc, note_duration, total_duration)
          advance == ~in_silence /\ dc >= total_duration
          overflow == ~advance /\ dc >= UsizeMax
          p1 == IF advance THEN next_position(p) ELSE p
          dc1 == IF advance THEN 1 ELSE IF overflow THEN 0 ELSE dc + 1
          silence == IF in_silence THEN Some(0) ELSE None
      IN  IF p1 >= NotesLen
          THEN [position |-> p1, duration_counter |-> dc1, item |-> None,
                fault |-> "index"]
          ELSE [position |-> p1, duration_counter |-> dc1,
                item |-> OptionOr(silence, Some(Note(p1)[1])),
                fault |-> IF overflow THEN "overflow" ELSE "none"]

(***************************************************************************)
(* Rainbow                                                                 *)
(***************************************************************************)
HueModulus == 361
Scale == 68
Full == 4080

Rainbow_new(h) == h

hue_step_wide(h) == WrapU16(h + 1) % (HueModulus + 1)

\* self.hue = (self.hue + 1) % 361
hue_step(h) == WrapU16(h + 1) % HueModulus

RainbowArm_second_arm_short(h) ==
    CASE h >= 0 /\ h <= 59 -> [operand |-> h, slot |-> 2, r |-> Full, g |-> 0, b |-> 0]
      [] h >= 60 /\ h <= 119 -> [operand |-> 119 - h, slot |-> 1, r |-> 0, g |-> Full, b |-> 0]
      [] h >= 120 /\ h <= 179 -> [operand |-> h - 120, slot |-> 3, r |-> 0, g |-> Full, b |-> 0]
      [] h >= 180 /\ h <= 239 -> [operand |-> 240 - h, slot |-> 2, r |-> 0, g |-> 0, b |-> Full]
      [] h >= 240 /\ h <= 299 -> [operand |-> h - 240, slot |-> 1, r |-> 0, g |-> 0, b |-> Full]
      [] h >= 300 /\ h <= 360 -> [operand |-> 360 - h, slot |-> 3, r |-> Full, g |-> 0, b |-> 0]
      [] OTHER -> [operand |-> 0, slot |-> 0, r |-> 0, g |-> 0, b |-> 0]

RainbowArm_last_arm_long(h) ==
    CASE h >= 0 /\ h <= 59 -> [operand |-> h, slot |-> 2, r |-> Full, g |-> 0, b |-> 0]
      [] h >= 60 /\ h <= 119 -> [operand |-> 120 - h, slot |-> 1, r |-> 0, g |-> Full, b |-> 0]
      [] h >= 120 /\ h <= 179 -> [operand |-> h - 120, slot |-> 3, r |-> 0, g |-> Full, b |-> 0]
      [] h >= 180 /\ h <= 239 -> [operand |-> 240 - h, slot |-> 2, r |-> 0, g |-> 0, b |-> Full]
      [] h >= 240 /\ h <= 299 -> [operand |-> h - 240, slot |-> 1, r |-> 0, g |-> 0, b |-> Full]
      [] h >= 300 /\ h <= 360 -> [operand |-> 361 - h, slot |-> 3, r |-> Full, g |-> 0, b |-> 0]
      [] OTHER -> [operand |-> 0, slot |-> 0, r |-> 0, g |-> 0, b |-> 0]

\* the match of Rainbow::next(): the arm's operand before `* 68` and the
\* place (slot) the product takes in the triple; slot 0 is the `_` arm
RainbowArm(h) ==
    CASE h >= 0 /\ h <= 59 -> [operand |-> h, slot |-> 2, r |-> Full, g |-> 0, b |-> 0]
      [] h >= 60 /\ h <= 119 -> [operand |-> 120 - h, slot |-> 1, r |-> 0, g |-> Full, b |-> 0]
      [] h >= 120 /\ h <= 179 -> [operand |-> h - 120, slot |-> 3, r |-> 0, g |-> Full, b |-> 0]
      [] h >= 180 /\ h <= 239 -> [operand |-> 240 - h, slot |-> 2, r |-> 0, g |-> 0, b |-> Full]
      [] h >= 240 /\ h <= 299 -> [operand |-> h - 240, slot |-> 1, r |-> 0, g |-> 0, b |-> Full]
      [] h >= 300 /\ h <= 360 -> [operand |-> 360 - h, slot |-> 3, r |-> Full, g |-> 0, b |-> 0]
      [] OTHER -> [operand |-> 0, slot |-> 0, r |-> 0, g |-> 0, b |-> 0]

\* One call of Rainbow::next() on the field h.
Rainbow_next(h) ==
    LET sum == h + 1
        h1 == hue_step(h)
        arm == RainbowArm(h1)
    IN  IF arm.slot = 0
        THEN [hue |-> h1, item |-> None,
              fault |-> IF InU16(sum) THEN "none" ELSE "overflow"]
        ELSE
          LET product == arm.operand * Scale
              v == WrapU16(product)
              triple == <<IF arm.slot = 1 THEN v ELSE arm.r,
                          IF arm.slot = 2 THEN v ELSE arm.g,
                          IF arm.slot = 3 THEN v ELSE arm.b>>
          IN  [hue |-> h1, item |-> Some(triple),
               fault |-> IF InU16(sum) /\ InU16(arm.operand) /\ InU16(product)
                         THEN "none" ELSE "overflow"]

(***************************************************************************)
(* Servo                                                                   *)
(***************************************************************************)
Servo_MIN == 132
Servo_MAX == 608

Servo_new(offset) == [current |-> offset, factor |-> 2]

\* One call of Servo::next() on the instance s.
Servo_next_step_first(s) ==
    LET sum == AsI16(s.current) + s.factor
        current == AsU16(WrapI16(sum))
        factor == IF current >= Servo_MAX THEN -2
                  ELSE IF current <= Servo_MIN THEN 2
                  ELSE s.factor
    IN  [current |-> current, factor |-> factor, item |-> Some(current),
         fault |-> IF InI16(sum) THEN "none" ELSE "overflow"]

Servo_next(s) ==
    LET factor == IF s.current >= Servo_MAX THEN -2
                  ELSE IF s.current <= Servo_MIN THEN 2
                  ELSE s.factor
        sum == AsI16(s.current) + factor
        current == AsU16(WrapI16(sum))
    IN  [current |-> current, factor |-> factor, item |-> Some(current),
         fault |-> IF InI16(sum) THEN "none" ELSE "overflow"]

(***************************************************************************)
(* The calls of next().  A call that indexes NOTES out of bounds panics; a *)
(* call whose arithmetic overflows panics when the build checks overflow   *)
(* and goes on with the wrapped value when it does not.                    *)
(***************************************************************************)
Panicked == fault \in {"index", "overflow"}

Count == calls' = IF calls < MaxCalls THEN calls + 1 ELSE calls

FaultAfter(f) == IF f = "overflow" THEN "wrapped" ELSE fault

\* table.next()
MidiNext ==
    /\ unit = "midi"
    /\ ~Panicked
    /\ LET r == MidiTable_next(position, duration_counter)
       IN  \E checks \in OverflowChecks :
             IF r.fault = "index" \/ (r.fault = "overflow" /\ checks)
             THEN /\ fault' = r.fault
                  /\ UNCHANGED <<midi_vars, before>>
             ELSE /\ before' = Some([position |-> position,
                                     duration_counter |-> duration_counter])
                  /\ position' = r.position
                  /\ duration_counter' = r.duration_counter
                  /\ midi_item' = r.item
                  /\ fault' = FaultAfter(r.fault)
    /\ Count
    /\ UNCHANGED <<rainbow_vars, servo_vars, unit, program_vars>>

\* rainbow.next()
RainbowNext ==
    /\ unit = "rainbow"
    /\ ~Panicked
    /\ LET r == Rainbow_next(hue)
       IN  \E checks \in OverflowChecks :
             IF r.fault = "overflow" /\ checks
             THEN /\ fault' = r.fault
                  /\ UNCHANGED <<rainbow_vars, before>>
             ELSE /\ before' = Some([hue |-> hue])
                  /\ hue' = r.hue
                  /\ rgb_item' = r.item
                  /\ fault' = FaultAfter(r.fault)
    /\ Count
    /\ UNCHANGED <<midi_vars, servo_vars, unit, program_vars>>

\* servos[i].next()
ServoNext(i) ==
    /\ unit = "servo"
    /\ ~Panicked
    /\ LET r == Servo_next(servos[i])
       IN  \E checks \in OverflowChecks :
             IF r.fault = "overflow" /\ checks
             THEN /\ fault' = r.fault
                  /\ UNCHANGED <<servo_vars, before>>
             ELSE /\ before' = Some(servos[i])
                  /\ servos' = [servos EXCEPT ![i] =
                                  [current |-> r.current, factor |-> r.factor]]
                  /\ servo_item' = [servo_item EXCEPT ![i] = r.item]
                  /\ fault' = FaultAfter(r.fault)
    /\ Count
    /\ UNCHANGED <<midi_vars, rainbow_vars, unit, program_vars>>

(***************************************************************************)
(* The example programs.  A program is the list of the calls main() makes  *)
(* after the board is set up: those before the loop, then those of one     *)
(* iteration of the loop.  A call is                                       *)
(*   Op       a call that returns no Result (GPIO, delay, buffer drawing), *)
(*   Gen      a step of program arithmetic, which panics if it fails,      *)
(*   Try      a call whose Result is unwrapped,                            *)
(*   OrElse   a call whose Result is replaced by a sentinel on Err,        *)
(*   ...Block the same inside block!(), polled while it would block,       *)
(*   If       a test that skips the next `skip` calls when it fails.       *)
(***************************************************************************)
Call(op, dev, res, poll) ==
    [op |-> op, dev |-> dev, res |-> res, poll |-> poll, cond |-> "", skip |-> 0]

Op(op, dev) == Call(op, dev, "plain", FALSE)
Gen(op) == Call(op, "cpu", "gen", FALSE)
Try(op, dev) == Call(op, dev, "unwrap", FALSE)
TryBlock(op, dev) == Call(op, dev, "unwrap", TRUE)
OrElse(op, dev) == Call(op, dev, "unwrap_or", FALSE)
OrElseBlock(op, dev) == Call(op, dev, "unwrap_or", TRUE)
If(cond, skip) ==
    [op |-> "if", dev |-> "cpu", res |-> "if", poll |-> FALSE, cond |-> cond,
     skip |-> skip]

\* LED::blink of the generic examples: on, delay, off
\* a blink that leaves the LED on
Blink_left_on ==
    <<Op("led.on", "led"), Op("delay_ms", "delay"), Op("delay_ms", "delay")>>
\* a blink that never turns the LED on
Blink_stays_off ==
    <<Op("led.off", "led"), Op("delay_ms", "delay"), Op("led.off", "led")>>
Blink == <<Op("led.on", "led"), Op("delay_ms", "delay"), Op("led.off", "led")>>

\* led.on(); delay; led.off(); delay of the STM32F3 examples
OnOffDelay == Blink \o <<Op("delay_ms", "delay")>>

Setup_ad9833 == <<Try("synth.reset", "spi"), Try("synth.enable", "spi")>>

Loop_ad9833 ==
    Blink \o
    <<Gen("table.next"),
      Try("synth.set_frequency", "spi"),
      Try("synth.select_frequency", "spi"),
      Op("current_register = opposite", "cpu")>>

Setup_pca9685 ==
    <<Try("Pca9685::new", "i2c"), Try("pwm.enable", "i2c"),
      Try("pwm.set_prescale", "i2c")>>

Loop_pca9685 ==
    <<Gen("rainbow.next"),
      If("rainbow.next is Some", 4),
      Op("delay_ms", "delay"),
      Gen("values[0..5]"),
      Gen("servos.next"),
      Try("pwm.set_all_on_off", "i2c")>>

Setup_ads1015 ==
    <<Try("disp.init", "display"), Try("adc.set_full_scale_range", "i2c")>>

Loop_ads1015 ==
    Blink \o
    <<OrElseBlock("adc.read A0", "i2c"), OrElseBlock("adc.read A1", "i2c"),
      OrElseBlock("adc.read A2", "i2c"), OrElseBlock("adc.read A3", "i2c"),
      Op("disp.clear", "display"),
      Try("Text.draw 0", "display"), Try("Text.draw 1", "display"),
      Try("Text.draw 2", "display"), Try("Text.draw 3", "display"),
      Try("disp.flush", "display")>>

Setup_ads1015_bp ==
    <<Try("disp.init", "display"), Try("disp.flush", "display"),
      Try("adc.set_full_scale_range", "i2c")>>

Loop_ads1015_bp ==
    <<Op("led.set_high", "led"), Op("delay_ms", "delay"),
      Op("led.set_low", "led"), Op("delay_ms", "delay"),
      OrElseBlock("adc.read A0", "i2c"), OrElseBlock("adc.read A1", "i2c"),
      OrElseBlock("adc.read A2", "i2c"), OrElseBlock("adc.read A3", "i2c"),
      Op("disp.draw 0", "display"), Op("disp.draw 1", "display"),
      Op("disp.draw 2", "display"), Op("disp.draw 3", "display"),
      Try("disp.flush", "display")>>

Setup_ccs811 ==
    <<Try("disp.init", "display"), Try("disp.flush", "display"),
      Try("ccs811.software_reset", "i2c"), Op("delay_ms", "delay"),
      Try("ccs811.start_application", "i2c"),
      TryBlock("hdc2080.read", "i2c"),
      Try("ccs811.set_environment", "i2c"), Try("ccs811.set_mode", "i2c")>>

Loop_ccs811 ==
    Blink \o
    <<Op("delay_ms", "delay"),
      OrElseBlock("ccs811.data", "i2c"),
      Gen("counter += 1"),
      If("counter > 10", 3),
      Op("counter = 0", "cpu"),
      TryBlock("hdc2080.read", "i2c"),
      Try("ccs811.set_environment", "i2c"),
      Op("disp.clear", "display"),
      Try("Text.draw 0", "display"), Try("Text.draw 1", "display"),
      Try("Text.draw 2", "display"), Try("Text.draw 3", "display"),
      Try("disp.flush", "display")>>

Setup_mcp42x ==
    <<Try("disp.init", "display"), Try("disp.flush", "display"),
      Try("adc.set_full_scale_range", "i2c")>>

Loop_mcp42x_flush_unchecked ==
    Blink \o
    <<Try("digipot.set_position Ch0", "spi"),
      Try("digipot.set_position Ch1", "spi"),
      TryBlock("adc.read A0", "i2c"), TryBlock("adc.read A1", "i2c"),
      Op("disp.clear", "display"),
      Try("Text.draw 0", "display"), Try("Text.draw 1", "display"),
      OrElse("disp.flush", "display"),
      Gen("position += 8")>>

Loop_mcp42x ==
    Blink \o
    <<Try("digipot.set_position Ch0", "spi"),
      Try("digipot.set_position Ch1", "spi"),
      TryBlock("adc.read A0", "i2c"), TryBlock("adc.read A1", "i2c"),
      Op("disp.clear", "display"),
      Try("Text.draw 0", "display"), Try("Text.draw 1", "display"),
      Try("disp.flush", "display"),
      Gen("position += 8")>>

Setup_tmp112 == <<Try("disp.init", "display"), Try("disp.flush", "display")>>

Loop_tmp112 ==
    OnOffDelay \o
    <<OrElse("tmp112.read_temperature", "i2c"),
      Op("disp.draw", "display"),
      Try("disp.flush", "display")>>

Setup_ds3231 == <<Try("rtc.set_datetime", "i2c")>>

Loop_ds3231 ==
    <<Try("rtc.get_datetime", "i2c"), If("now matches begin", 4)>> \o OnOffDelay

Setup_tcs3472 ==
    <<Try("disp.init", "display"), Try("disp.flush", "display"),
      Try("sensor.enable", "i2c"), Try("sensor.enable_rgbc", "i2c"),
      TryBlock("sensor.is_rgbc_status_valid", "i2c")>>

Loop_tcs3472 ==
    OnOffDelay \o
    <<OrElse("sensor.read_clear_channel", "i2c"),
      OrElse("sensor.read_red_channel", "i2c"),
      OrElse("sensor.read_green_channel", "i2c"),
      OrElse("sensor.read_blue_channel", "i2c"),
      Op("disp.clear", "display"),
      Try("Text.draw", "display"),
      Try("disp.flush", "display")>>

Setup_tca9548a ==
    <<Try("disp.init", "display"), Try("disp.flush", "display"),
      Try("sensor0.enable", "i2c"), Try("sensor1.enable", "i2c")>>

Loop_tca9548a ==
    OnOffDelay \o
    <<Try("sensor0.read_all_channels", "i2c"),
      Try("sensor1.read_all_channels", "i2c"),
      Op("disp.draw line0", "display"),
      Op("disp.draw line0 at 12", "display"),
      Try("disp.flush", "display")>>

Setup_mcp7940n ==
    <<Try("disp.init", "display"), Try("disp.flush", "display"),
      Try("rtc.set_datetime", "i2c"), Try("rtc.enable", "i2c")>>

Loop_mcp7940n ==
    OnOffDelay \o
    <<Try("rtc.get_datetime", "i2c"),
      Op("disp.clear", "display"),
      Try("Text.draw", "display"),
      Try("disp.flush", "display")>>

Programs ==
    {"ad9833", "pca9685", "ads1015", "ads1015_bp", "ccs811", "mcp42x",
     "tmp112", "ds3231", "tcs3472", "tca9548a", "mcp7940n"}

Setup(p) ==
    CASE p = "ad9833" -> Setup_ad9833
      [] p = "pca9685" -> Setup_pca9685
      [] p = "ads1015" -> Setup_ads1015
      [] p = "ads1015_bp" -> Setup_ads1015_bp
      [] p = "ccs811" -> Setup_ccs811
      [] p = "mcp42x" -> Setup_mcp42x
      [] p = "tmp112" -> Setup_tmp112
      [] p = "ds3231" -> Setup_ds3231
      [] p = "tcs3472" -> Setup_tcs3472
      [] p = "tca9548a" -> Setup_tca9548a
      [] p = "mcp7940n" -> Setup_mcp7940n

Loop(p) ==
    CASE p = "ad9833" -> Loop_ad9833
      [] p = "pca9685" -> Loop_pca9685
      [] p = "ads1015" -> Loop_ads1015
      [] p = "ads1015_bp" -> Loop_ads1015_bp
      [] p = "ccs811" -> Loop_ccs811
      [] p = "mcp42x" -> Loop_mcp42x
      [] p = "tmp112" -> Loop_tmp112
      [] p = "ds3231" -> Loop_ds3231
      [] p = "tcs3472" -> Loop_tcs3472
      [] p = "tca9548a" -> Loop_tca9548a
      [] p = "mcp7940n" -> Loop_mcp7940n

Code(p) == Setup(p) \o Loop(p)
LoopStart(p) == Len(Setup(p)) + 1
\* the place after place k: past the end of the loop body is its start
Place(p, k) == IF k > Len(Code(p)) THEN LoopStart(p) ELSE k

(***************************************************************************)
(* The data of the programs.                                               *)
(***************************************************************************)
\* the register itself
get_opposite_same(register) == register
get_opposite(register) == IF register = "F0" THEN "F1" ELSE "F0"

\* DS3231 example: the stored date-time
begin ==
    [year |-> 2019, month |-> 1, day |-> 2, weekday |-> 3, hour |-> 4,
     minute |-> 5, second |-> 6]

\* the date-times a read of the RTC returns in the model: each field as
\* stored or one later
DateTimes ==
    [year : {begin.year, begin.year + 1}, month : {begin.month, begin.month + 1},
     day : {begin.day, begin.day + 1}, weekday : {begin.weekday, begin.weekday + 1},
     hour : {begin.hour, begin.hour + 1}, minute : {begin.minute, begin.minute + 1},
     second : {begin.second, begin.second + 1}]

\* a comparison of the whole date-time, seconds included
NowMatchesBegin_to_the_second(n) == n = begin

\* the test of the DS3231 loop
NowMatchesBegin(n) ==
    /\ n.year = begin.year
    /\ n.month = begin.month
    /\ n.day = begin.day
    /\ n.weekday = begin.weekday
    /\ n.hour = begin.hour
    /\ n.minute = begin.minute

U8Max == 255
\* a step that starts again only at 255
position_step_at_255(x) ==
    IF x >= U8Max
    THEN [position |-> 0, fault |-> "none"]
    ELSE [position |-> (x + 8) % (U8Max + 1),
          fault |-> IF x + 8 > U8Max THEN "overflow" ELSE "none"]

\* MCP42x example: if position >= 248 { position = 0 } else { position += 8 }
position_step(x) ==
    IF x >= 248
    THEN [position |-> 0, fault |-> "none"]
    ELSE [position |-> (x + 8) % (U8Max + 1),
          fault |-> IF x + 8 > U8Max THEN "overflow" ELSE "none"]

\* CCS811 example: counter += 1 on an i32
I32Max == 2147483647
counter_step(c) ==
    IF c >= I32Max
    THEN [counter |-> -I32Max - 1, fault |-> "overflow"]
    ELSE [counter |-> c + 1, fault |-> "none"]

\* PCA9685 program: values[0..5] from the triple of the rainbow
LedMax == 4080 \div 32
rgb_values(v, item) ==
    LET r == Unwrap(item)[1] \div 32
        g == Unwrap(item)[2] \div 32
        b == Unwrap(item)[3] \div 32
        w == [i \in 0..5 |-> CASE i = 0 -> r [] i = 1 -> g [] i = 2 -> b
                               [] i = 3 -> LedMax - r [] i = 4 -> LedMax - g
                               [] i = 5 -> LedMax - b]
    IN  [values |-> [i \in DOMAIN v |-> IF i \in 0..5 THEN WrapU16(w[i]) ELSE v[i]],
         fault |-> IF \A i \in 0..5 : InU16(w[i]) THEN "none" ELSE "overflow"]

\* PCA9685 program: for (i, servo) in servos.iter_mut().enumerate()
servos_step(ss) ==
    LET r == [i \in DOMAIN ss |-> Servo_next(ss[i])]
    IN  [servos |-> [i \in DOMAIN ss |->
                       [current |-> r[i].current, factor |-> r[i].factor]],
         items |-> [i \in DOMAIN ss |-> r[i].item],
         fault |-> IF \A i \in DOMAIN ss : r[i].fault = "none"
                   THEN "none" ELSE "overflow"]

(***************************************************************************)
(* The sensors, their readings and what the displays show.                 *)
(***************************************************************************)
\* the readings one iteration binds, and the lines of a display
Slots == 1..4
Lines == 1..4
NoReadings == [s \in Slots |-> None]
Blank == [l \in Lines |-> None]

\* ADS1015: a conversion is a signed 12-bit code
Ads1015Codes == {-(2^11), 2^11 - 1}
\* ADS1115 (MCP42x example): a conversion is an i16
Ads1115Codes == {-(2^15), 2^15 - 1}
\* TMP112: a temperature is a signed 13-bit count of 1/16 degC
Tmp112Temperatures == {-(2^12), 2^12 - 1}
\* TCS3472: a channel is a u16
Tcs3472Channels == {0, 2^16 - 1}
\* CCS811: eco2 and etvoc are u16, raw_current has 6 bits, raw_voltage 10
AlgorithmResults ==
    {[eco2 |-> 400, etvoc |-> 0, raw_current |-> 0, raw_voltage |-> 0],
     [eco2 |-> 9999, etvoc |-> 9999, raw_current |-> 2^6 - 1,
      raw_voltage |-> 2^10 - 1]}
\* HDC2080: temperature and humidity in hundredths; the humidity is an
\* Option
Hdc2080Measurements ==
    {[temperature |-> 2150, humidity |-> Some(4025)],
     [temperature |-> 2150, humidity |-> None]}
\* VEML6040: the four channels are u16
Veml6040Measurements ==
    {[red |-> 0, green |-> 0, blue |-> 0, white |-> 0],
     [red |-> 2^16 - 1, green |-> 2^16 - 1, blue |-> 2^16 - 1,
      white |-> 2^16 - 1]}

AdcReads == {"adc.read A0", "adc.read A1", "adc.read A2", "adc.read A3"}
ChannelReads ==
    {"sensor.read_clear_channel", "sensor.read_red_channel",
     "sensor.read_green_channel", "sensor.read_blue_channel"}

\* the values a successful call of a read returns
SensorValues(p, op) ==
    CASE op \in AdcReads /\ p \in {"ads1015", "ads1015_bp"} -> Ads1015Codes
      [] op \in AdcReads /\ p = "mcp42x" -> Ads1115Codes
      [] op = "tmp112.read_temperature" -> Tmp112Temperatures
      [] op \in ChannelReads -> Tcs3472Channels
      [] op = "ccs811.data" -> AlgorithmResults
      [] op = "hdc2080.read" -> Hdc2080Measurements
      [] op \in {"sensor0.read_all_channels", "sensor1.read_all_channels"} ->
           Veml6040Measurements
      [] op = "rtc.get_datetime" /\ p = "mcp7940n" ->
           {begin, [begin EXCEPT !.second = begin.second + 1]}
      [] OTHER -> {}

\* the arguments of unwrap_or
AdcSentinel == 8091
Tmp112Sentinel == 500 * 16
ChannelSentinel == 0
default ==
    [eco2 |-> 9999, etvoc |-> 9999, raw_current |-> 255, raw_voltage |-> 9999]

\* every failed read replaced by 0
Sentinel_zero(p, op) == ChannelSentinel
\* the largest code of the ADS1015 in place of 8091
Sentinel_max_code(p, op) ==
    CASE op \in AdcReads -> 2^11 - 1
      [] op = "tmp112.read_temperature" -> Tmp112Sentinel
      [] op \in ChannelReads -> ChannelSentinel
      [] op = "ccs811.data" -> default
Sentinel(p, op) ==
    CASE op \in AdcReads -> AdcSentinel
      [] op = "tmp112.read_temperature" -> Tmp112Sentinel
      [] op \in ChannelReads -> ChannelSentinel
      [] op = "ccs811.data" -> default

\* the reading a read binds: values[i], data, env, clear .. blue, m0, m1, now
Slot(p, op) ==
    CASE op \in {"adc.read A0", "ccs811.data", "tmp112.read_temperature",
                 "sensor.read_clear_channel", "sensor0.read_all_channels"} -> 1
      [] op = "rtc.get_datetime" /\ p = "mcp7940n" -> 1
      [] op \in {"adc.read A1", "hdc2080.read", "sensor.read_red_channel",
                 "sensor1.read_all_channels"} -> 2
      [] op \in {"adc.read A2", "sensor.read_green_channel"} -> 3
      [] op \in {"adc.read A3", "sensor.read_blue_channel"} -> 4
      [] OTHER -> 0

\* env is declared before the loop of the CCS811 example; every other
\* reading is a `let` of the loop body
Keeps(p, s) == p = "ccs811" /\ s = 2

\* "{:.2}" of a count of 1/16: its hundredths, the nearest, ties to even
Hundredths(t) ==
    LET n == t * 100
        q == n \div 16
        r == n % 16
    IN  IF r > 8 \/ (r = 8 /\ q % 2 = 1) THEN q + 1 ELSE q

\* the line of the display a draw writes to
Line(op) ==
    CASE op \in {"Text.draw", "Text.draw 0", "disp.draw", "disp.draw 0",
                 "disp.draw line0"} -> 1
      [] op \in {"Text.draw 1", "disp.draw 1", "disp.draw line0 at 12"} -> 2
      [] op \in {"Text.draw 2", "disp.draw 2"} -> 3
      [] op \in {"Text.draw 3", "disp.draw 3"} -> 4
      [] OTHER -> 0

\* the numbers of the text a draw renders, from the readings rs
Text(p, op, rs) ==
    CASE p \in {"ads1015", "ads1015_bp"} ->
           <<Line(op) - 1, Unwrap(rs[Line(op)])>>
      [] p = "mcp42x" -> <<Line(op) - 1, Unwrap(rs[Line(op)]) \div 32>>
      [] p = "tmp112" -> <<Hundredths(Unwrap(rs[1]))>>
      [] p = "tcs3472" ->
           <<Unwrap(rs[1]), Unwrap(rs[2]), Unwrap(rs[3]), Unwrap(rs[4])>>
      [] p = "ccs811" ->
           (CASE Line(op) = 1 -> <<Unwrap(rs[1]).eco2>>
              [] Line(op) = 2 -> <<Unwrap(rs[1]).etvoc>>
              [] Line(op) = 3 -> <<Unwrap(rs[2]).temperature>>
              [] Line(op) = 4 -> <<UnwrapOr(Unwrap(rs[2]).humidity, 0)>>)
      [] p = "tca9548a" ->
           LET m0 == Unwrap(rs[1])
           IN  <<0, m0.red, m0.green, m0.blue, m0.white>>
      [] p = "mcp7940n" ->
           LET n == Unwrap(rs[1])
           IN  <<n.year, n.month, n.day, n.hour, n.minute, n.second>>

(***************************************************************************)
(* The actuators and the clock.                                            *)
(***************************************************************************)
\* AD9833 after reset(): FREQ0 is the register in use, none was written
SynthReset == [selected |-> "F0", written |-> None]

\* MCP42x: no position was set yet
PotUnset == [Ch0 |-> None, Ch1 |-> None]
\* MCP42x example: 255 - position on a u8
inverse_position_high(x) == (U8Max + 1) - x
inverse_position(x) == U8Max - x

\* DS3231: the steps, in seconds, by which the model lets its time advance
TickSeconds == {1, 30, 3600, 86400}
RtcSet == [elapsed |-> 0, ticks |-> 0]

\* DS3231: the date-time of its registers e seconds after set_datetime has
\* stored begin; the weekday register counts 1..7 and steps at midnight
DateTimeAt_stopped(e) == begin
DateTimeAt(e) ==
    LET t == begin.hour * 3600 + begin.minute * 60 + begin.second + e
        days == t \div 86400
        secs == t % 86400
    IN  [year |-> begin.year, month |-> begin.month,
         day |-> begin.day + days,
         weekday |-> ((begin.weekday - 1 + days) % 7) + 1,
         hour |-> secs \div 3600, minute |-> (secs % 3600) \div 60,
         second |-> secs % 60]

(***************************************************************************)
(* Specifications of the generators.                                       *)
(***************************************************************************)
\* the offsets main() gives its five servos
\* offsets one above those of main()
ServoOffsets_odd == [k \in 1..5 |-> Servo_MIN + 40 * (k - 1) + 1]
ServoOffsets == [k \in 1..5 |-> Servo_MIN + 40 * (k - 1)]
ProgramOffsets == {ServoOffsets[k] : k \in DOMAIN ServoOffsets}

InitFields(g, m, h, offsets) ==
    /\ unit = g
    /\ position = m.position
    /\ duration_counter = m.duration_counter
    /\ midi_item = None
    /\ hue = Rainbow_new(h)
    /\ rgb_item = None
    /\ servos = [i \in DOMAIN offsets |-> Servo_new(offsets[i])]
    /\ servo_item = [i \in DOMAIN offsets |-> None]
    /\ fault = "none"
    /\ before = None
    /\ unit \in Programs => pc = 1
    /\ unit \notin Programs => pc = 0
    /\ status = "running"
    /\ led = "unset"
    /\ last = None
    /\ current_register = "F0"
    /\ pot_position = 0
    /\ counter = 0
    /\ now = None
    /\ values = [i \in 0..15 |-> 0]
    /\ readings = NoReadings
    /\ buffer = Blank
    /\ synth = SynthReset
    /\ pot = PotUnset
    /\ rtc = RtcSet

\* a MidiTable in any state: position in 0..61, any duration_counter up to
\* MaxCounter; its calls before this state are not counted
InitMidi ==
    /\ \E p \in 0..(NotesLen - 1), dc \in 0..MaxCounter :
         InitFields("midi", [position |-> p, duration_counter |-> dc], 0,
                    <<Servo_MIN>>)
    /\ calls = MaxCalls

NextMidi == MidiNext

\* main() calls table.next() in every iteration of its loop
SpecMidi == InitMidi /\ [][NextMidi]_vars /\ WF_vars(MidiNext)

\* a Servo constructed with any offset in [Servo::MIN, Servo::MAX]; its
\* calls are not counted
InitServo ==
    /\ \E offset \in Servo_MIN..Servo_MAX :
         InitFields("servo", MidiTable_default, 0, <<offset>>)
    /\ calls = MaxCalls

NextServo == \E i \in DOMAIN servos : ServoNext(i)

SpecServo == InitServo /\ [][NextServo]_vars

\* the generators as the programs construct them: MidiTable::default(),
\* Rainbow::new(0), Servo::new(Servo::MIN + 40 k)
InitGen ==
    /\ \/ InitFields("midi", MidiTable_default, 0, <<Servo_MIN>>)
       \/ InitFields("rainbow", MidiTable_default, 0, <<Servo_MIN>>)
       \/ \E offset \in ProgramOffsets :
            InitFields("servo", MidiTable_default, 0, <<offset>>)
    /\ calls = 0

NextGen ==
    \/ MidiNext
    \/ RainbowNext
    \/ \E i \in DOMAIN servos : ServoNext(i)

SpecGen == InitGen /\ [][NextGen]_vars

(***************************************************************************)
(* The steps of the programs.                                              *)
(***************************************************************************)
Running == unit \in Programs /\ status = "running"
Cur == Code(unit)[pc]
Did(outcome) == last' = Some([pc |-> pc, op |-> Cur.op, outcome |-> outcome])
Advance == pc' = Place(unit, pc + 1)
\* the readings rs when the program goes on to place k: past the end of the
\* loop body the bindings of the iteration end
Carried(rs, k) ==
    IF k > Len(Code(unit))
    THEN [s \in Slots |-> IF Keeps(unit, s) THEN rs[s] ELSE None]
    ELSE rs
\* the buffer of the display after the draw op has rendered its text
Drawn(op) ==
    IF Line(op) > 0
    THEN [buffer EXCEPT ![Line(op)] = Some(Text(unit, op, readings))]
    ELSE buffer

Test(cond) ==
    CASE cond = "rainbow.next is Some" -> IsSome(rgb_item)
      [] cond = "counter > 10" -> counter > 10
      [] cond = "now matches begin" -> NowMatchesBegin(Unwrap(now))

\* an if: the calls of its block are skipped when the test fails
Branch ==
    /\ Running
    /\ Cur.res = "if"
    /\ LET k == IF Test(Cur.cond) THEN pc + 1 ELSE pc + 1 + Cur.skip
       IN  /\ pc' = Place(unit, k)
           /\ readings' = Carried(readings, k)
    /\ UNCHANGED <<midi_vars, rainbow_vars, servo_vars, fault, calls, before,
                   unit, status, led, last, current_register, pot_position,
                   counter, now, values, buffer, synth, pot, rtc>>

\* a call that returns no Result
Plain ==
    /\ Running
    /\ Cur.res = "plain"
    /\ led' = CASE Cur.op = "led.on" -> "on"
                [] Cur.op = "led.off" -> "off"
                [] Cur.op = "led.set_high" -> "high"
                [] Cur.op = "led.set_low" -> "low"
                [] OTHER -> led
    /\ current_register' = IF Cur.op = "current_register = opposite"
                           THEN get_opposite(current_register)
                           ELSE current_register
    /\ counter' = IF Cur.op = "counter = 0" THEN 0 ELSE counter
    /\ buffer' = IF Cur.op = "disp.clear" THEN Blank ELSE Drawn(Cur.op)
    /\ readings' = Carried(readings, pc + 1)
    /\ Advance
    /\ Did("ok")
    /\ UNCHANGED <<midi_vars, rainbow_vars, servo_vars, fault, calls, before,
                   unit, status, pot_position, now, values, synth, pot, rtc>>

\* the data a step of program arithmetic works on
Data ==
    [position |-> position, duration_counter |-> duration_counter,
     midi_item |-> midi_item, hue |-> hue, rgb_item |-> rgb_item,
     servos |-> servos, servo_item |-> servo_item, values |-> values,
     pot_position |-> pot_position, counter |-> counter, fault |-> "none"]

GenResult(op) ==
    CASE op = "table.next" ->
           LET r == MidiTable_next(position, duration_counter)
           IN  [Data EXCEPT !.position = r.position,
                            !.duration_counter = r.duration_counter,
                            !.midi_item = r.item, !.fault = r.fault]
      [] op = "rainbow.next" ->
           LET r == Rainbow_next(hue)
           IN  [Data EXCEPT !.hue = r.hue, !.rgb_item = r.item,
                            !.fault = r.fault]
      [] op = "values[0..5]" ->
           LET r == rgb_values(values, rgb_item)
           IN  [Data EXCEPT !.values = r.values, !.fault = r.fault]
      [] op = "servos.next" ->
           LET r == servos_step(servos)
           IN  [Data EXCEPT !.servos = r.servos, !.servo_item = r.items,
                            !.values = [i \in DOMAIN values |->
                                          IF i - 9 \in DOMAIN r.items
                                             /\ IsSome(r.items[i - 9])
                                          THEN Unwrap(r.items[i - 9])
                                          ELSE values[i]],
                            !.fault = r.fault]
      [] op = "position += 8" ->
           LET r == position_step(pot_position)
           IN  [Data EXCEPT !.pot_position = r.position, !.fault = r.fault]
      [] op = "counter += 1" ->
           LET r == counter_step(counter)
           IN  [Data EXCEPT !.counter = r.counter, !.fault = r.fault]

\* a step of program arithmetic: it panics on an index out of bounds, and
\* on an overflow when the build checks overflow
Generate ==
    /\ Running
    /\ Cur.res = "gen"
    /\ Cur.op = "rainbow.next" => calls < MaxCalls
    /\ calls' = IF Cur.op = "rainbow.next" THEN calls + 1 ELSE calls
    /\ LET r == GenResult(Cur.op)
       IN  \E checks \in OverflowChecks :
             IF r.fault = "index" \/ (r.fault = "overflow" /\ checks)
             THEN /\ status' = "panicked"
                  /\ fault' = r.fault
                  /\ Did("panic")
                  /\ UNCHANGED <<midi_vars, rainbow_vars, servo_vars, values,
                                 pot_position, counter, pc, readings>>
             ELSE /\ status' = status
                  /\ fault' = FaultAfter(r.fault)
                  /\ position' = r.position
                  /\ duration_counter' = r.duration_counter
                  /\ midi_item' = r.midi_item
                  /\ hue' = r.hue
                  /\ rgb_item' = r.rgb_item
                  /\ servos' = r.servos
                  /\ servo_item' = r.servo_item
                  /\ values' = r.values
                  /\ pot_position' = r.pot_position
                  /\ counter' = r.counter
                  /\ readings' = Carried(readings, pc + 1)
                  /\ Advance
                  /\ Did("ok")
    /\ UNCHANGED <<before, unit, led, current_register, now, buffer, synth,
                   pot, rtc>>

ReadsDateTime == unit = "ds3231" /\ Cur.op = "rtc.get_datetime"

\* what a call can return in Ok: a date-time of times, a value of the
\* sensor, or ()
OkValues(times) ==
    IF ReadsDateTime THEN times
    ELSE IF Slot(unit, Cur.op) > 0 THEN SensorValues(unit, Cur.op)
    ELSE {<<>>}

\* the AD9833 after a call of the driver; main passes `opposite`
SynthAfter(op) ==
    CASE op = "synth.reset" -> SynthReset
      [] op = "synth.set_frequency" ->
           [synth EXCEPT !.written = Some(get_opposite(current_register))]
      [] op = "synth.select_frequency" ->
           [synth EXCEPT !.selected = get_opposite(current_register)]
      [] OTHER -> synth

\* the MCP42x after a call of the driver
PotAfter(op) ==
    CASE op = "digipot.set_position Ch0" ->
           [pot EXCEPT !.Ch0 = Some(pot_position)]
      [] op = "digipot.set_position Ch1" ->
           [pot EXCEPT !.Ch1 = Some(inverse_position(pot_position))]
      [] OTHER -> pot

\* a call that returns Ok, a read of the DS3231 one of times
CallReturns(times) ==
    /\ Running
    /\ Cur.res \in {"unwrap", "unwrap_or"}
    /\ \E v \in OkValues(times) :
         /\ now' = IF ReadsDateTime THEN Some(v) ELSE now
         /\ readings' =
              Carried(IF Slot(unit, Cur.op) > 0
                      THEN [readings EXCEPT ![Slot(unit, Cur.op)] = Some(v)]
                      ELSE readings, pc + 1)
    /\ buffer' = Drawn(Cur.op)
    /\ synth' = SynthAfter(Cur.op)
    /\ pot' = PotAfter(Cur.op)
    /\ Advance
    /\ Did("ok")
    /\ UNCHANGED <<midi_vars, rainbow_vars, servo_vars, fault, calls, before,
                   unit, status, led, current_register, pot_position, counter,
                   values, rtc>>

\* a call that returns Ok; the DS3231 is read as any date-time
CallOk == CallReturns(DateTimes)

\* a call inside block!() that returns WouldBlock and is made again (for
\* sensor.is_rgbc_status_valid: Ok(false), the `while` around it)
CallWouldBlock ==
    /\ Running
    /\ Cur.poll
    /\ Did("wouldblock")
    /\ UNCHANGED <<midi_vars, rainbow_vars, servo_vars, fault, calls, before,
                   unit, pc, status, led, current_register, pot_position,
                   counter, now, values, device_vars>>

\* a call that returns Err and is unwrapped: the panic handler ends the
\* program
CallErrPanic ==
    /\ Running
    /\ Cur.res = "unwrap"
    /\ status' = "panicked"
    /\ Did("err")
    /\ UNCHANGED <<midi_vars, rainbow_vars, servo_vars, fault, calls, before,
                   unit, pc, led, current_register, pot_position, counter, now,
                   values, device_vars>>

\* a call that returns Err and is made again at once
CallErrSentinel_again ==
    /\ Running
    /\ Cur.res = "unwrap_or"
    /\ Did("err")
    /\ UNCHANGED <<midi_vars, rainbow_vars, servo_vars, fault, calls, before,
                   unit, pc, status, led, current_register, pot_position,
                   counter, now, values, device_vars>>

\* a call that returns Err and has a sentinel: the loop goes on with the
\* argument of unwrap_or
CallErrSentinel ==
    /\ Running
    /\ Cur.res = "unwrap_or"
    /\ readings' =
         Carried([readings EXCEPT ![Slot(unit, Cur.op)] =
                    Some(Sentinel(unit, Cur.op))], pc + 1)
    /\ Advance
    /\ Did("err")
    /\ UNCHANGED <<midi_vars, rainbow_vars, servo_vars, fault, calls, before,
                   unit, status, led, current_register, pot_position, counter,
                   now, values, buffer, synth, pot, rtc>>

Init ==
    /\ \E p \in Programs : InitFields(p, MidiTable_default, 0, ServoOffsets)
    /\ calls = 0

Next ==
    \/ Branch
    \/ Plain
    \/ Generate
    \/ CallOk
    \/ CallWouldBlock
    \/ CallErrPanic
    \/ CallErrSentinel

Spec == Init /\ [][Next]_vars

\* the DS3231 counts on from the date-time stored by set_datetime, also
\* past a minute, an hour, midnight (within the days of January the model
\* reaches)
Tick ==
    /\ unit = "ds3231"
    /\ status = "running"
    /\ pc >= LoopStart(unit)
    /\ rtc.ticks < MaxTicks
    /\ \E d \in TickSeconds :
         rtc' = [elapsed |-> rtc.elapsed + d, ticks |-> rtc.ticks + 1]
    /\ UNCHANGED <<midi_vars, rainbow_vars, servo_vars, fault, calls, before,
                   unit, pc, status, led, last, current_register, pot_position,
                   counter, now, values, readings, buffer, synth, pot>>

\* a call that returns Ok; the DS3231 is read as the date-time it has
\* counted to
CallOkClock == CallReturns({DateTimeAt(rtc.elapsed)})

InitRtc == Init /\ unit = "ds3231"

NextRtc ==
    \/ Tick
    \/ Branch
    \/ Plain
    \/ CallOkClock
    \/ CallErrPanic

\* the DS3231 example with an RTC that keeps time
SpecRtc == InitRtc /\ [][NextRtc]_vars

\* a statement the program has reached is executed: a call returns, Ok or
\* Err, after finitely many polls that found it not ready
Proceed ==
    \/ Branch
    \/ Plain
    \/ Generate
    \/ CallOk
    \/ CallErrPanic
    \/ CallErrSentinel

\* the examples whose loop begins by blinking the status LED: the PCA9685
\* program leaves its LED alone, the DS3231 one lights it on a match
StatusLedPrograms == Programs \ {"pca9685", "ds3231"}

InitFair == Init /\ unit \in StatusLedPrograms

SpecFair == InitFair /\ [][Next]_vars /\ WF_vars(Proceed)

(***************************************************************************)
(* Properties of the generators.                                           *)
(***************************************************************************)
Abs(x) == IF x < 0 THEN -x ELSE x

\* C1: a Servo constructed with an offset in [Servo::MIN, Servo::MAX]
\* returns only values in [Servo::MIN, Servo::MAX] = [132, 608].
C1_ServoStaysInRange ==
    \A i \in DOMAIN servo_item :
        IsSome(servo_item[i]) =>
            Unwrap(servo_item[i]) >= 132 /\ Unwrap(servo_item[i]) <= 608

\* C2: next() returns the silence value 0 exactly when the call starts with
\* note_duration <= duration_counter < note_duration + silence_duration for
\* the entry at position; otherwise it returns the pitch of the entry that
\* is current after the call.
C2_SilenceOnlyInGap ==
    IsSome(before) =>
        LET b == Unwrap(before)
            note_duration == Note(b.position)[2]
            silence_duration == Note(b.position)[3]
            gap == /\ note_duration <= b.duration_counter
                   /\ b.duration_counter < note_duration + silence_duration
        IN  /\ midi_item = Some(0) <=> gap
            /\ ~gap => midi_item = Some(Note(position)[1])

\* a call that started at the first step of a gap (duration_counter =
\* note_duration of entry 12) has returned the silence value
C2_GapStarts ==
    /\ IsSome(before)
    /\ Unwrap(before).position = 12
    /\ Unwrap(before).duration_counter = 4
    /\ midi_item = Some(0)

\* C3: a call of next() leaves position unchanged or moves it to
\* (position + 1) mod 62, and position always eventually advances, so the
\* table indices are visited in order again and again.
C3_PositionsInOrder ==
    /\ [](IsSome(before) =>
            \/ position = Unwrap(before).position
            \/ position = (Unwrap(before).position + 1) % 62)
    /\ \A p \in 0..61 : (position = p) ~> (position = (p + 1) % 62)

\* a call has wrapped position from the last entry to the first
C3_Wrapped ==
    /\ IsSome(before)
    /\ Unwrap(before).position = 61
    /\ position = 0

\* the six segments of the HSV-to-RGB model scaled to 0..4080
HsvSegments(h) ==
    CASE h \in 0..59 -> <<4080, 68 * h, 0>>
      [] h \in 60..119 -> <<68 * (120 - h), 4080, 0>>
      [] h \in 120..179 -> <<0, 4080, 68 * (h - 120)>>
      [] h \in 180..239 -> <<0, 68 * (240 - h), 4080>>
      [] h \in 240..299 -> <<68 * (h - 240), 0, 4080>>
      [] h \in 300..360 -> <<4080, 0, 68 * (360 - h)>>

\* C4: for the hue h it holds after stepping, Rainbow::next() returns the
\* triple of the six-segment model, each component in 0..4080.
C4_SixSegments ==
    (unit = "rainbow" /\ IsSome(before)) =>
        /\ hue \in 0..360
        /\ rgb_item = Some(HsvSegments(hue))
        /\ \A k \in 1..3 : Unwrap(rgb_item)[k] \in 0..4080

\* the first hue of the last segment has been returned
C4_LastSegmentStarts ==
    /\ hue = 300
    /\ rgb_item = Some(<<4080, 0, 4080>>)

\* C5: between two consecutive calls of Rainbow::next() at most one colour
\* component changes, and by at most 68.
C5_Continuous ==
    [][(IsSome(rgb_item) /\ IsSome(rgb_item')) =>
         LET old == Unwrap(rgb_item)
             new == Unwrap(rgb_item')
         IN  /\ Cardinality({k \in 1..3 : old[k] # new[k]}) <= 1
             /\ \A k \in 1..3 : Abs(new[k] - old[k]) <= 68]_vars

\* the call after hue 360 has wrapped the hue to 0
C5_WrappedAround ==
    /\ IsSome(before)
    /\ unit = "rainbow"
    /\ Unwrap(before).hue = 360
    /\ hue = 0
    /\ IsSome(rgb_item)

\* C6: every call replaces hue by (hue + 1) mod 361; from Rainbow::new(0)
\* the hue after n calls is n mod 361, always in 0..360.
C6_HueCycle ==
    unit = "rainbow" =>
        /\ hue \in 0..360
        /\ IsSome(before) => hue = (Unwrap(before).hue + 1) % 361
        /\ calls < MaxCalls => hue = calls % 361

\* the hue is back at 0 after 361 calls
C6_PeriodCompleted ==
    /\ unit = "rainbow"
    /\ calls = 361
    /\ hue = 0

\* C7: consecutive values returned by Servo::next() differ by exactly 2, and
\* factor changes only on a call made while current >= Servo::MAX (to -2) or
\* current <= Servo::MIN (to +2).
C7_TriangleWave ==
    [][\A i \in DOMAIN servos :
         /\ (IsSome(servo_item[i]) /\ IsSome(servo_item'[i])
               /\ servos'[i] # servos[i]) =>
              Abs(Unwrap(servo_item'[i]) - Unwrap(servo_item[i])) = 2
         /\ servos'[i].factor # servos[i].factor =>
              \/ servos[i].current >= 608 /\ servos'[i].factor = -2
              \/ servos[i].current <= 132 /\ servos'[i].factor = 2]_vars

\* a call made at the upper bound has turned the servo downwards
C7_TurnedAtMax ==
    /\ unit = "servo"
    /\ IsSome(before)
    /\ Unwrap(before).factor = 2
    /\ Unwrap(before).current >= 608
    /\ servos[1].factor = -2

\* C8: from the constructors the programs use, next() never returns None,
\* never indexes NOTES out of bounds and never overflows.
C8_NoFailure ==
    /\ fault = "none"
    /\ position < 62
    /\ IsSome(before) =>
         /\ unit = "midi" => IsSome(midi_item)
         /\ unit = "rainbow" => IsSome(rgb_item)
         /\ unit = "servo" => \A i \in DOMAIN servo_item : IsSome(servo_item[i])

\* the table has been played to its end and has started again
C8_TableRestarted ==
    /\ unit = "midi"
    /\ IsSome(before)
    /\ Unwrap(before).position = 61
    /\ position = 0
    /\ midi_item = Some(76)

(***************************************************************************)
(* Properties of the programs.                                             *)
(***************************************************************************)
\* the reads whose failure is replaced by a sentinel value
SentinelReads ==
    ({"ads1015", "ads1015_bp"}
        \X {"adc.read A0", "adc.read A1", "adc.read A2", "adc.read A3"})
    \cup {<<"tmp112", "tmp112.read_temperature">>, <<"ccs811", "ccs811.data">>}
    \cup ({"tcs3472"}
            \X {"sensor.read_clear_channel", "sensor.read_red_channel",
                "sensor.read_green_channel", "sensor.read_blue_channel"})

\* C10: in every example a failed peripheral, sensor or display call that is
\* not one of the reads with a sentinel ends the program at once: nothing
\* is done after it, and the loop does not run again.
C10_FailureIsFatal ==
    /\ []((IsSome(last) /\ Unwrap(last).outcome = "err"
             /\ <<unit, Unwrap(last).op>> \notin SentinelReads)
            => status = "panicked")
    /\ [][status = "panicked" => UNCHANGED vars]_vars

\* the display flush of the MCP42x loop has failed and ended the program
C10_FlushFailed ==
    /\ unit = "mcp42x"
    /\ status = "panicked"
    /\ IsSome(last)
    /\ Unwrap(last).op = "disp.flush"
    /\ Unwrap(last).outcome = "err"
    /\ Unwrap(last).pc >= LoopStart("mcp42x")
    /\ pot_position = 248

\* the examples that have a read with a sentinel
SentinelPrograms == {rd[1] : rd \in SentinelReads}
C11_ReadFailed(rd) ==
    /\ unit = rd[1]
    /\ IsSome(last)
    /\ Unwrap(last).op = rd[2]
    /\ Unwrap(last).outcome = "err"

C11_IsSentinel(op, v) ==
    CASE op \in AdcReads -> v = 8091
      [] op = "tmp112.read_temperature" -> v = 500 * 16
      [] op = "ccs811.data" -> v.eco2 = 9999 /\ v.etvoc = 9999
      [] op \in ChannelReads -> v = 0

\* the display shows the readings the iteration has bound
C11_Shows ==
    CASE unit \in {"ads1015", "ads1015_bp"} ->
           \A i \in 1..4 : buffer[i] = Some(<<i - 1, Unwrap(readings[i])>>)
      [] unit = "tmp112" ->
           buffer[1] = Some(<<Hundredths(Unwrap(readings[1]))>>)
      [] unit = "tcs3472" ->
           buffer[1] = Some([i \in 1..4 |-> Unwrap(readings[i])])
      [] unit = "ccs811" ->
           /\ buffer[1] = Some(<<Unwrap(readings[1]).eco2>>)
           /\ buffer[2] = Some(<<Unwrap(readings[1]).etvoc>>)

\* C11: a failed read that has a sentinel (the four ADS1015 channel reads:
\* 8091, the TMP112 read: 500.0, the CCS811 data read: the default result
\* with eco2 = etvoc = 9999, the four TCS3472 channel reads: 0) does not end
\* the program; the sentinel takes the place of that reading and is what
\* the display shows in that iteration, the other readings of the iteration
\* keep their values, and the next iteration makes the read again (unless a
\* fatal failure has ended the program before).
C11_SentinelInPlace ==
    /\ [](\A rd \in SentinelReads :
            C11_ReadFailed(rd) =>
              /\ status = "running"
              /\ C11_IsSentinel(rd[2], Unwrap(readings[Slot(rd[1], rd[2])])))
    /\ [][\A rd \in SentinelReads :
            (last' # last /\ C11_ReadFailed(rd)') =>
              \A s \in Slots \ {Slot(rd[1], rd[2])} :
                readings'[s] = readings[s]]_vars
    /\ [][\A s \in Slots :
            (/\ unit \in SentinelPrograms
             /\ IsSome(readings[s])
             /\ ~(unit = "ccs811" /\ s = 2)
             /\ pc' # LoopStart(unit))
            => readings'[s] = readings[s]]_vars
    /\ []((/\ unit \in SentinelPrograms
           /\ pc >= LoopStart(unit)
           /\ Cur.op = "disp.flush") => C11_Shows)
    /\ \A s \in Slots :
         (\E rd \in SentinelReads :
            C11_ReadFailed(rd) /\ Slot(rd[1], rd[2]) = s)
         ~> (\/ status = "panicked"
             \/ /\ <<unit, Cur.op>> \in SentinelReads
                /\ Slot(unit, Cur.op) = s
                /\ readings[s] = None)

\* the ADS1015 example is about to flush a display that shows 8091 for
\* channel 0, whose read has failed, and the code read on channel 1
C11_SentinelShown ==
    /\ unit = "ads1015"
    /\ status = "running"
    /\ pc >= LoopStart("ads1015")
    /\ Cur.op = "disp.flush"
    /\ buffer[1] = Some(<<0, 8091>>)
    /\ buffer[2] = Some(<<1, 2047>>)

\* a read with a sentinel has returned Ok(v)
C12_ReadOk(rd, v) ==
    /\ unit = rd[1]
    /\ IsSome(last)
    /\ Unwrap(last).op = rd[2]
    /\ Unwrap(last).outcome = "ok"
    /\ readings[Slot(rd[1], rd[2])] = Some(v)

\* the values a failed read of rd and a successful one returning v give
\* the program differ
C12_Distinguishable(rd, v) == v # Sentinel(rd[1], rd[2])

C13_NoRetry ==
    /\ [][(last' # last /\ Unwrap(last').outcome = "err") =>
            \/ status' = "panicked" /\ pc' = pc
            \/ status' = "running" /\ pc' = Place(unit, Unwrap(last').pc + 1)]_vars
    /\ [][(last' # last /\ pc' = pc /\ status' = "running") =>
            Unwrap(last').outcome = "wouldblock"]_vars
    /\ [][pc' # pc => (pc' > pc \/ pc' = LoopStart(unit))]_vars

\* the TCS3472 example is about to read the red channel after the read of
\* the clear channel has failed
C13_WentOn ==
    /\ unit = "tcs3472"
    /\ status = "running"
    /\ last = Some([pc |-> LoopStart("tcs3472") + 4,
                    op |-> "sensor.read_clear_channel", outcome |-> "err"])
    /\ Cur.op = "sensor.read_red_channel"

\* the AD9833 player has made the call op of the driver, which returned Ok
C14_Called(op) ==
    /\ unit = "ad9833"
    /\ IsSome(last)
    /\ Unwrap(last).op = op
    /\ Unwrap(last).outcome = "ok"

\* C14: the AD9833 player writes each new frequency to the register that
\* is not in use and then selects it: set_frequency is called with a
\* register other than the one selected last (FREQ0 at the start), the
\* select_frequency that follows selects the register just written, so the
\* register in use changes with every select (F1, F0, F1, ...), and
\* get_opposite never returns its argument.
C14_WritesRegisterNotInUse ==
    /\ [](C14_Called("synth.set_frequency") =>
            /\ IsSome(synth.written)
            /\ Unwrap(synth.written) # synth.selected
            /\ Cur.op = "synth.select_frequency")
    /\ [][(last' # last /\ C14_Called("synth.select_frequency")') =>
            /\ synth.written = Some(synth'.selected)
            /\ synth'.selected # synth.selected
            /\ synth'.written = synth.written]_vars
    /\ [][(unit = "ad9833" /\ synth'.selected # synth.selected) =>
            C14_Called("synth.select_frequency")']_vars
    /\ [](unit = "ad9833" /\ ~IsSome(synth.written) => synth.selected = "F0")
    /\ [](\A register \in {"F0", "F1"} :
            get_opposite(register) \in {"F0", "F1"} \ {register})

\* the player has selected FREQ0 again, after FREQ1
C14_BackToF0 ==
    /\ C14_Called("synth.select_frequency")
    /\ synth = [selected |-> "F0", written |-> Some("F0")]

\* C15: the MCP42x loop sets channel 0 to the positions from 0 to 255: the
\* positions set increase, and the position set before the loop starts
\* again at 0 is 255.
C15_PositionsUpTo255 ==
    [][(/\ unit = "mcp42x"
        /\ IsSome(pot.Ch0)
        /\ pot'.Ch0 # pot.Ch0
        /\ Unwrap(pot'.Ch0) <= Unwrap(pot.Ch0))
       => (Unwrap(pot.Ch0) = 255 /\ Unwrap(pot'.Ch0) = 0)]_vars

\* C16: in every iteration of the MCP42x loop channel 1 is set to 255
\* minus the position channel 0 was set to in that iteration, a value of a
\* u8, and both positions are set before the two reads of the ADC.
C16_InversePosition ==
    /\ unit = "mcp42x" /\ IsSome(last) /\ Unwrap(last).outcome = "ok"
         /\ Unwrap(last).op = "digipot.set_position Ch1"
       => /\ pot.Ch0 = Some(pot_position)
          /\ pot.Ch1 = Some(255 - Unwrap(pot.Ch0))
          /\ Unwrap(pot.Ch1) \in 0..255
    /\ unit = "mcp42x" /\ Cur.op \in {"adc.read A0", "adc.read A1"}
       => /\ pot.Ch0 = Some(pot_position)
          /\ pot.Ch1 = Some(255 - pot_position)

\* the last iteration before the position starts again: 248 and 7 are
\* set, and the ADC is about to be read
C16_LastPositionsSet ==
    /\ unit = "mcp42x"
    /\ Cur.op = "adc.read A0"
    /\ pot = [Ch0 |-> Some(248), Ch1 |-> Some(7)]

\* the date-time n is 2019-01-02, weekday 3, 04:05, whatever its seconds
C17_SameMinute(n) ==
    /\ n.year = 2019 /\ n.month = 1 /\ n.day = 2 /\ n.weekday = 3
    /\ n.hour = 4 /\ n.minute = 5

\* C17: an iteration of the DS3231 loop turns the LED on (and off again
\* after 500 ms) exactly if the date-time it has just read equals begin in
\* year, month, day, weekday, hour and minute; the seconds read do not
\* matter.
C17_LedIffSameMinute ==
    /\ [][(unit = "ds3231" /\ Cur.res = "if" /\ pc' # pc) =>
            /\ IsSome(now)
            /\ C17_SameMinute(Unwrap(now)) =>
                 (pc' = pc + 1 /\ Code(unit)[pc'].op = "led.on")
            /\ ~C17_SameMinute(Unwrap(now)) => pc' = LoopStart(unit)]_vars
    /\ [][(unit = "ds3231" /\ led' # led) =>
            /\ C17_SameMinute(Unwrap(now))
            /\ Unwrap(last).op \in {"rtc.get_datetime", "delay_ms"}
            /\ led' = IF Unwrap(last).op = "rtc.get_datetime"
                      THEN "on" ELSE "off"]_vars
    /\ []((unit = "ds3231" /\ led = "on") => C17_SameMinute(Unwrap(now)))

\* the LED is on after a read of 04:05:07, a second later than begin
C17_OnWithOtherSeconds ==
    /\ unit = "ds3231"
    /\ led = "on"
    /\ now = Some([begin EXCEPT !.second = 7])

\* C18: with an RTC that counts on from the stored 2019-01-02 04:05:06 the
\* LED stops blinking after one minute: a read made a minute or more after
\* set_datetime does not match begin, and once a read has returned another
\* minute than that of begin no later iteration turns the LED on.
C18_StopsAfterOneMinute ==
    /\ []((unit = "ds3231" /\ IsSome(now) /\ Unwrap(now).minute # 5)
            => [](led # "on"))
    /\ [][(unit = "ds3231" /\ now' # now /\ rtc.elapsed >= 60)
            => ~C17_SameMinute(Unwrap(now'))]_vars

\* the LED has blinked and is off, and 04:06:06 has been read
C18_Stopped ==
    /\ unit = "ds3231"
    /\ led = "off"
    /\ pc = LoopStart("ds3231")
    /\ now = Some([begin EXCEPT !.minute = 6])

\* the text "Sensor k: R .. G .. B .. W .." of the measurement m
C19_SensorLine(k, m) == <<k, m.red, m.green, m.blue, m.white>>

\* C19: every iteration of the TCA9548A / VEML6040 loop prints the
\* measurements of both sensors: what is flushed to the display shows the
\* reading of sensor 0 in the first line and the reading of sensor 1 in the
\* second line, 12 pixels below.
C19_BothSensorsShown ==
    (unit = "tca9548a" /\ pc >= LoopStart(unit) /\ Cur.op = "disp.flush") =>
      /\ buffer[1] = Some(C19_SensorLine(0, Unwrap(readings[1])))
      /\ buffer[2] = Some(C19_SensorLine(1, Unwrap(readings[2])))

\* the LED is lit, or not: the examples call on() and off(), the Blue Pill
\* one set_high() and set_low() on the pin of its LED
C20_Lit == led \in {"on", "high"}
C20_Dark == led \in {"off", "low"}
C20_CallFailed == IsSome(last) /\ Unwrap(last).outcome = "err"

\* C20: in the examples that blink the status LED, as long as no call to a
\* peripheral fails (and every polled read returns in the end), the LED is
\* turned on and off again exactly once in every iteration of the loop, by
\* its first and its third statement, so it is turned on again and again.
C20_LedKeepsBlinking ==
    /\ <>C20_CallFailed \/ ([]<>C20_Lit /\ []<>C20_Dark)
    /\ [][led' # led =>
            \/ pc = LoopStart(unit) /\ C20_Lit'
            \/ pc = LoopStart(unit) + 2 /\ C20_Dark']_vars
    /\ [][(pc' # pc /\ pc = LoopStart(unit)) => (led' # led /\ C20_Lit')]_vars
    /\ [][(pc' # pc /\ pc = LoopStart(unit) + 2) =>
            (led' # led /\ C20_Dark')]_vars

\* the AD9833 player has turned its LED on in the iteration of the second
\* note of the table
C20_LitAgain ==
    /\ unit = "ad9833"
    /\ led = "on"
    /\ position = 1
    /\ ~C20_CallFailed

\* the examples that blink through led.on() / led.off() or LED::blink at
\* the start of their loop
C21_Programs == StatusLedPrograms \ {"ads1015_bp"}
\* the calls that can end the program: the unwrapped ones, the reads with a
\* sentinel, and the arithmetic
C21_Fallible == Cur.res \in {"unwrap", "unwrap_or", "gen"}

\* C21: if something went wrong the LED is off: in the examples that blink
\* through led.on() / led.off() or LED::blink every fallible call of the
\* loop body is made while the LED is off, after led.off() and before the
\* next led.on(), so a program that a failure inside the loop has ended has
\* its LED off, and it stays off. (In the DS3231 example, whose LED shows a
\* match, such a call is never made while the LED is on.)
C21_LedOffOnFailure ==
    /\ []((unit \in C21_Programs /\ pc >= LoopStart(unit) /\ C21_Fallible)
            => led = "off")
    /\ []((unit \in C21_Programs /\ pc >= LoopStart(unit)
             /\ status = "panicked") => led = "off")
    /\ []((unit = "ds3231" /\ (C21_Fallible \/ status = "panicked"))
            => led # "on")
    /\ [][status = "panicked" => led' = led]_vars

\* the flush of the TMP112 loop has failed and ended the program; the LED
\* is off
C21_EndedWithLedOff ==
    /\ unit = "tmp112"
    /\ status = "panicked"
    /\ pc >= LoopStart("tmp112")
    /\ Unwrap(last).op = "disp.flush"
    /\ Unwrap(last).outcome = "err"
    /\ led = "off"

\* C22: in the PCA9685 program, after any number of iterations, the five
\* pulse widths passed to set_all_on_off on channels 10..14 lie in
\* [Servo::MIN, Servo::MAX] = [132, 608]: the initial 0 and any other width
\* out of range is never sent to a servo channel.
C22_ServoChannelsInRange ==
    (unit = "pca9685" /\ Cur.op = "pwm.set_all_on_off") =>
      \A i \in 10..14 : values[i] >= 132 /\ values[i] <= 608

\* set_all_on_off is about to send the largest width, 608, to channel 10,
\* with the servo of channel 14 on its way down from 608
C22_LargestWidthSent ==
    /\ unit = "pca9685"
    /\ status = "running"
    /\ Cur.op = "pwm.set_all_on_off"
    /\ values[10] = 608
    /\ values[14] < 608
    /\ servos[5].factor = -2

\* the k-th value (from 0) of the sequence that plays the entries from
\* entry i on, cyclically: note_duration copies of the pitch, then
\* silence_duration copies of 0
RECURSIVE C23_Played(_, _)
C23_Played(k, i) ==
    LET pitch == NOTES[i + 1][1]
        note_duration == NOTES[i + 1][2]
        silence_duration == NOTES[i + 1][3]
    IN  IF k < note_duration THEN pitch
        ELSE IF k < note_duration + silence_duration THEN 0
        ELSE C23_Played(k - note_duration - silence_duration, (i + 1) % 62)

\* C23: from MidiTable::default() the values returned by repeated next()
\* calls are, for the entries 0..61 in order and then again from 0, exactly
\* note_duration copies of the pitch followed by exactly silence_duration
\* copies of 0: no note, the first and those after a wraparound included,
\* is a step shorter or longer.
C23_NotesAsTabled ==
    (unit = "midi" /\ calls >= 1 /\ calls < MaxCalls) =>
      midi_item = Some(C23_Played(calls - 1, 0))

\* the 330th call, the first after the 329 steps of the table, has
\* returned the pitch of entry 0 again
C23_SecondRound ==
    /\ unit = "midi"
    /\ calls = 330
    /\ position = 0
    /\ duration_counter = 1
    /\ midi_item = Some(76)

====
